---- MODULE Spec2Model ----
(***************************************************************************)
(* A model of src/src/st.py: a persistent, height-balanced search tree.    *)
(*                                                                         *)
(* Python objects have an identity, and several properties of the tree     *)
(* (structural sharing, persistence) are about identity.  The model keeps  *)
(* the InnerNode objects in a heap: a sequence of records, one per object, *)
(* whose index is the object's identity.  The singleton Empty is 0.        *)
(* Creating an InnerNode appends a record; nothing in st.py writes to an   *)
(* existing object.                                                        *)
(*                                                                         *)
(* A caller holds the tree `root` and the tree `prev` it had before the    *)
(* last call.  Objects neither of them reaches are reclaimed, and the      *)
(* remaining ones are renumbered in a canonical order (Compact), which     *)
(* keeps every identity relation between the two retained versions.        *)
(***************************************************************************)
EXTENDS Integers, Sequences, FiniteSets

\* The element type: the integers 1..MaxVal with their usual order.
MaxVal == 6

Values == 1..MaxVal

VARIABLES heap, root, prev, ref, last

vars == <<heap, root, prev, ref, last>>

-----------------------------------------------------------------------------
(* Tree representation *)

\* The one and only empty tree.
Empty == 0

\* Tree.height: 0 on Empty, the cached _height on an InnerNode.
height(h, t) == IF t = Empty THEN 0 ELSE h[t].height

\* Tree.left: Empty on Empty, _left on an InnerNode.
left(h, t) == IF t = Empty THEN Empty ELSE h[t].left

\* Tree.right: Empty on Empty, _right on an InnerNode.
right(h, t) == IF t = Empty THEN Empty ELSE h[t].right

\* InnerNode.value.  EmptyClass.value raises: every use below is guarded,
\* and an unguarded use on Empty is reported through Raise.
value(h, t) == h[t].value

\* Tree.bf: the balance factor.
bf(h, t) == height(h, right(h, t)) - height(h, left(h, t))

Max(a, b) == IF a >= b THEN a ELSE b

\* The running state of one call: the heap, the value being returned, and
\* what the call did (rotations made, calls of rightmost, exceptions raised,
\* whether every balance() so far was given an input within its assumption).
Start(h) ==
    [h |-> h, r |-> Empty, rots |-> 0, rmost |-> 0, faults |-> {}, balok |-> TRUE]

\* An exception leaves the call: no tree is returned.
Raise(s, e) == [s EXCEPT !.faults = @ \cup {e}, !.r = Empty]

\* InnerNode(v, l, r): a new object; __post_init__ fixes its height.
InnerNode(s, v, l, r) ==
    LET h == s.h
        node == [value |-> v, left |-> l, right |-> r,
                 height |-> Max(height(h, l), height(h, r)) + 1]
    IN  [s EXCEPT !.h = Append(h, node), !.r = Len(h) + 1]

-----------------------------------------------------------------------------
(* Rotations *)

\* rot_left writing the rotated tree into the object n instead of creating
\* a new root.
rot_left_inplace(s, n) ==
    LET h  == s.h
        s0 == [s EXCEPT !.rots = @ + 1]
    IN  IF right(h, n) = Empty
        THEN Raise(s0, "EmptyValue")
        ELSE LET inner == InnerNode(s0, value(h, n), left(h, n),
                                    left(h, right(h, n)))
                 node  == [value |-> value(h, right(h, n)),
                           left |-> inner.r,
                           right |-> right(h, right(h, n)),
                           height |-> Max(height(inner.h, inner.r),
                                          height(h, right(h, right(h, n)))) + 1]
             IN  [inner EXCEPT !.h[n] = node, !.r = n]

\* rot_left building the tree of rot_right: the two subtrees change sides.
rot_left_mirrored(s, n) ==
    LET h  == s.h
        s0 == [s EXCEPT !.rots = @ + 1]
    IN  IF right(h, n) = Empty
        THEN Raise(s0, "EmptyValue")
        ELSE LET inner == InnerNode(s0, value(h, n), left(h, right(h, n)),
                                    left(h, n))
             IN  InnerNode(inner, value(h, right(h, n)),
                           right(h, right(h, n)), inner.r)

\* rot_left(n).  n.right.value is read first: it raises when n.right is Empty.
rot_left(s, n) ==
    LET h  == s.h
        s0 == [s EXCEPT !.rots = @ + 1]
    IN  IF right(h, n) = Empty
        THEN Raise(s0, "EmptyValue")
        ELSE LET inner == InnerNode(s0, value(h, n), left(h, n),
                                    left(h, right(h, n)))
             IN  InnerNode(inner, value(h, right(h, n)), inner.r,
                           right(h, right(h, n)))

\* rot_right forgetting the right subtree of the promoted child.
rot_right_drop(s, n) ==
    LET h  == s.h
        s0 == [s EXCEPT !.rots = @ + 1]
    IN  IF left(h, n) = Empty
        THEN Raise(s0, "EmptyValue")
        ELSE LET inner == InnerNode(s0, value(h, n), Empty, right(h, n))
             IN  InnerNode(inner, value(h, left(h, n)), left(h, left(h, n)),
                           inner.r)

\* rot_right(n).  n.left.value is read first: it raises when n.left is Empty.
rot_right(s, n) ==
    LET h  == s.h
        s0 == [s EXCEPT !.rots = @ + 1]
    IN  IF left(h, n) = Empty
        THEN Raise(s0, "EmptyValue")
        ELSE LET inner == InnerNode(s0, value(h, n), right(h, left(h, n)),
                                    right(h, n))
             IN  InnerNode(inner, value(h, left(h, n)), left(h, left(h, n)),
                           inner.r)

-----------------------------------------------------------------------------
(* What balance() assumes of its input *)

\* Every node of t has a balance factor in {-1, 0, 1}.
RECURSIVE balanced(_, _)
balanced(h, t) ==
    \/ t = Empty
    \/ /\ bf(h, t) \in {-1, 0, 1}
       /\ balanced(h, left(h, t))
       /\ balanced(h, right(h, t))

\* What balance() assumes of its input: both children are balanced trees
\* and the node itself is at most 2 away from balanced.
BalanceAssumption(h, n) ==
    /\ balanced(h, left(h, n))
    /\ balanced(h, right(h, n))
    /\ bf(h, n) \in {-2, -1, 0, 1, 2}

-----------------------------------------------------------------------------
(* Balancing *)

\* balance that never rotates.
balance_norot(s, n) ==
    [s EXCEPT !.balok = @ /\ BalanceAssumption(s.h, n), !.r = n]

\* balance without the double rotations: one rotation in every case.
balance_single(s, n) ==
    LET h  == s.h
        s0 == [s EXCEPT !.balok = @ /\ BalanceAssumption(h, n)]
    IN  IF bf(h, n) <= -2 THEN rot_right(s0, n)
        ELSE IF bf(h, n) >= 2 THEN rot_left(s0, n)
        ELSE [s0 EXCEPT !.r = n]

\* balance rotating a left-heavy node left and a right-heavy node right.
balance_swapped(s, n) ==
    LET h  == s.h
        s0 == [s EXCEPT !.balok = @ /\ BalanceAssumption(h, n)]
    IN  IF bf(h, n) <= -2 THEN rot_left(s0, n)
        ELSE IF bf(h, n) >= 2 THEN rot_right(s0, n)
        ELSE [s0 EXCEPT !.r = n]

\* balance rotating as soon as a node leans: thresholds 1 instead of 2.
balance_eager(s, n) ==
    LET h  == s.h
        s0 == [s EXCEPT !.balok = @ /\ BalanceAssumption(h, n)]
    IN  IF bf(h, n) <= -1
        THEN IF bf(h, left(h, n)) > 0
             THEN LET a == rot_left(s0, left(h, n))
                  IN  IF a.faults # {} THEN a
                      ELSE LET b == InnerNode(a, value(h, n), a.r, right(a.h, n))
                           IN  rot_right(b, b.r)
             ELSE rot_right(s0, n)
        ELSE IF bf(h, n) >= 1
        THEN IF bf(h, right(h, n)) < 0
             THEN LET a == rot_right(s0, right(h, n))
                  IN  IF a.faults # {} THEN a
                      ELSE LET b == InnerNode(a, value(h, n), left(h, n), a.r)
                           IN  rot_left(b, b.r)
             ELSE rot_left(s0, n)
        ELSE [s0 EXCEPT !.r = n]

\* balance(n).  In a double rotation n.value is read, the child is rotated,
\* and the other child is read after that.
balance(s, n) ==
    LET h  == s.h
        s0 == [s EXCEPT !.balok = @ /\ BalanceAssumption(h, n)]
    IN  IF bf(h, n) <= -2
        THEN IF bf(h, left(h, n)) > 0
             THEN LET a == rot_left(s0, left(h, n))
                  IN  IF a.faults # {} THEN a
                      ELSE LET b == InnerNode(a, value(h, n), a.r, right(a.h, n))
                           IN  rot_right(b, b.r)
             ELSE rot_right(s0, n)
        ELSE IF bf(h, n) >= 2
        THEN IF bf(h, right(h, n)) < 0
             THEN LET a == rot_right(s0, right(h, n))
                  IN  IF a.faults # {} THEN a
                      ELSE LET b == InnerNode(a, value(h, n), left(h, n), a.r)
                           IN  rot_left(b, b.r)
             ELSE rot_left(s0, n)
        ELSE [s0 EXCEPT !.r = n]

-----------------------------------------------------------------------------
(* Public operations *)

\* contains(t, val): the loop of st.py, one iteration per node on the path.
RECURSIVE contains(_, _, _)
contains(h, t, val) ==
    IF t = Empty THEN FALSE
    ELSE IF value(h, t) = val THEN TRUE
    ELSE IF val < value(h, t) THEN contains(h, left(h, t), val)
    ELSE contains(h, right(h, t), val)

\* insert(t, val).  Python evaluates the arguments of InnerNode left to
\* right: t.value and t.left before the recursive call, t.right after it.
RECURSIVE insert(_, _, _)
insert(s, t, val) ==
    LET h == s.h
    IN  IF t = Empty THEN InnerNode(s, val, Empty, Empty)
        ELSE IF value(h, t) < val
        THEN LET a == insert(s, right(h, t), val)
             IN  IF a.faults # {} THEN a
                 ELSE LET b == InnerNode(a, value(h, t), left(h, t), a.r)
                      IN  balance(b, b.r)
        ELSE IF value(h, t) > val
        THEN LET a == insert(s, left(h, t), val)
             IN  IF a.faults # {} THEN a
                 ELSE LET b == InnerNode(a, value(h, t), a.r, right(a.h, t))
                      IN  balance(b, b.r)
        ELSE [s EXCEPT !.r = t]

\* The assertion that opens rightmost(t).
rightmost_assert(t) == t # Empty

\* rightmost(t), after its assertion: follow right children.
RECURSIVE rightmost(_, _)
rightmost(h, t) ==
    IF right(h, t) # Empty THEN rightmost(h, right(h, t)) ELSE value(h, t)

\* remove(t, val).
RECURSIVE remove(_, _, _)
remove(s, t, val) ==
    LET h == s.h
    IN  IF t = Empty THEN [s EXCEPT !.r = Empty]
        ELSE IF val < value(h, t)
        THEN LET a == remove(s, left(h, t), val)
             IN  IF a.faults # {} THEN a
                 ELSE LET b == InnerNode(a, value(h, t), a.r, right(a.h, t))
                      IN  balance(b, b.r)
        ELSE IF val > value(h, t)
        THEN LET a == remove(s, right(h, t), val)
             IN  IF a.faults # {} THEN a
                 ELSE LET b == InnerNode(a, value(h, t), left(h, t), a.r)
                      IN  balance(b, b.r)
        ELSE IF left(h, t) = Empty THEN [s EXCEPT !.r = right(h, t)]
        ELSE IF right(h, t) = Empty THEN [s EXCEPT !.r = left(h, t)]
        ELSE LET s0 == [s EXCEPT !.rmost = @ + 1]
             IN  IF ~rightmost_assert(left(h, t))
                 THEN Raise(s0, "EmptyRightmost")
                 ELSE LET x == rightmost(h, left(h, t))
                          a == remove(s0, left(h, t), x)
                      IN  IF a.faults # {} THEN a
                          ELSE LET b == InnerNode(a, x, a.r, right(a.h, t))
                               IN  balance(b, b.r)

-----------------------------------------------------------------------------
(* Retained versions *)

\* The nodes of t, root first, then the left and the right subtree.
RECURSIVE preorder(_, _)
preorder(h, t) ==
    IF t = Empty THEN <<>>
    ELSE <<t>> \o preorder(h, left(h, t)) \o preorder(h, right(h, t))

\* A sequence without its repetitions, first occurrences kept.
RECURSIVE distinct(_)
distinct(q) ==
    IF q = <<>> THEN <<>>
    ELSE LET d == distinct(SubSeq(q, 1, Len(q) - 1))
             x == q[Len(q)]
         IN  IF \E i \in 1..Len(d) : d[i] = x THEN d ELSE Append(d, x)

\* The objects that p or r reaches, those of p first.
Live(h, p, r) == distinct(preorder(h, p) \o preorder(h, r))

\* The place of object a in the numbering `order`.
Renumber(order, a) ==
    IF a = Empty THEN Empty ELSE CHOOSE i \in 1..Len(order) : order[i] = a

\* The heap with only the objects of `order`, renumbered by their place in it.
RECURSIVE CompactTo(_, _, _)
CompactTo(h, order, n) ==
    IF n = 0 THEN <<>>
    ELSE Append(CompactTo(h, order, n - 1),
                [h[order[n]] EXCEPT !.left = Renumber(order, @),
                                    !.right = Renumber(order, @)])

Compact(h, order) == CompactTo(h, order, Len(order))

\* The set of values stored in t.
RECURSIVE members(_, _)
members(h, t) ==
    IF t = Empty THEN {}
    ELSE {value(h, t)} \cup members(h, left(h, t)) \cup members(h, right(h, t))

-----------------------------------------------------------------------------
(* A caller: it starts from Empty and keeps calling the public operations   *)
(* on the tree it holds.                                                    *)

\* What the last call was and what it did.
Call(op, val, found, s) ==
    [op |-> op, val |-> val, found |-> found, rots |-> s.rots,
     rmost |-> s.rmost, faults |-> s.faults, balok |-> s.balok]

Init ==
    /\ heap = <<>>
    /\ root = Empty
    /\ prev = Empty
    /\ ref = {}
    /\ last = Call("none", 0, FALSE, Start(<<>>))

\* t2 = op(t1, v), with t1 the tree held.  A call that raises returns
\* nothing, and the caller keeps t1.
Returned(s, op, v, newref) ==
    LET ok == s.faults = {}
        t2 == IF ok THEN s.r ELSE root
        order == Live(s.h, root, t2)
    IN  /\ heap' = Compact(s.h, order)
        /\ prev' = Renumber(order, root)
        /\ root' = Renumber(order, t2)
        /\ ref' = IF ok THEN newref ELSE ref
        /\ last' = Call(op, v, FALSE, s)

\* t = insert(t, v)
Insert(v) == Returned(insert(Start(heap), root, v), "insert", v, ref \cup {v})

\* t = remove(t, v)
Remove(v) == Returned(remove(Start(heap), root, v), "remove", v, ref \ {v})

\* contains(t, v)
Contains(v) ==
    /\ last' = Call("contains", v, contains(heap, root, v), Start(heap))
    /\ UNCHANGED <<heap, root, prev, ref>>

Next ==
    \/ \E v \in Values : Insert(v)
    \/ \E v \in Values : Remove(v)
    \/ \E v \in Values : Contains(v)

Spec == Init /\ [][Next]_vars

-----------------------------------------------------------------------------
(* Observations used by the properties *)

\* The shape of t with its values and cached heights, identities left out.
RECURSIVE struct(_, _)
struct(h, t) ==
    IF t = Empty THEN <<>>
    ELSE <<struct(h, left(h, t)), value(h, t), height(h, t),
           struct(h, right(h, t))>>

\* The objects t reaches.
RECURSIVE reach(_, _)
reach(h, t) ==
    IF t = Empty THEN {}
    ELSE {t} \cup reach(h, left(h, t)) \cup reach(h, right(h, t))

\* The objects on the search path of v in t (the node holding v included).
RECURSIVE path(_, _, _)
path(h, t, v) ==
    IF t = Empty THEN {}
    ELSE IF value(h, t) = v THEN {t}
    ELSE IF v < value(h, t) THEN {t} \cup path(h, left(h, t), v)
    ELSE {t} \cup path(h, right(h, t), v)

\* Search-tree order at every node of t.
RECURSIVE ordered(_, _)
ordered(h, t) ==
    \/ t = Empty
    \/ /\ \A x \in members(h, left(h, t)) : x < value(h, t)
       /\ \A x \in members(h, right(h, t)) : x > value(h, t)
       /\ ordered(h, left(h, t))
       /\ ordered(h, right(h, t))

\* The number of nodes of t.
RECURSIVE size(_, _)
size(h, t) ==
    IF t = Empty THEN 0 ELSE 1 + size(h, left(h, t)) + size(h, right(h, t))

\* The cached height of every node of t is 1 + the larger child height.
RECURSIVE heights(_, _)
heights(h, t) ==
    \/ t = Empty
    \/ /\ h[t].height = 1 + Max(height(h, left(h, t)), height(h, right(h, t)))
       /\ heights(h, left(h, t))
       /\ heights(h, right(h, t))

Mutating == {"insert", "remove"}

\* The objects of the returned tree that the argument tree does not have.
Fresh == reach(heap, root) \ reach(heap, prev)

Abs(x) == IF x < 0 THEN -x ELSE x

TypeOK ==
    /\ root \in 0..Len(heap)
    /\ prev \in 0..Len(heap)
    /\ ref \subseteq Values
    /\ \A a \in 1..Len(heap) :
          /\ heap[a].value \in Values
          /\ heap[a].left \in 0..Len(heap)
          /\ heap[a].right \in 0..Len(heap)
    /\ heights(heap, root) /\ heights(heap, prev)

-----------------------------------------------------------------------------
(* Properties *)

\* C1. Balance invariant: every node of a tree returned by a sequence of
\* insert and remove calls from Empty has a balance factor in {-1, 0, 1}.
C1_BalanceInvariant == balanced(heap, root)

\* A rotation was made and the tree returned has three levels.
C1_Witness ==
    /\ last.op \in Mutating
    /\ last.rots > 0
    /\ height(heap, root) >= 3

\* C2. Search-tree order: at every node of a returned tree the values of
\* the left subtree are smaller and those of the right subtree are larger,
\* so that no value is stored twice.
C2_OrderInvariant ==
    /\ ordered(heap, root)
    /\ size(heap, root) = Cardinality(members(heap, root))

\* A double rotation was made on a tree of at least four values.
C2_Witness ==
    /\ last.rots = 2
    /\ size(heap, root) >= 4

\* C3. Membership: contains(tree, v) is true exactly when v is in the set
\* obtained by applying the same calls as set-add and set-remove.
C3_Membership ==
    /\ \A v \in Values : contains(heap, root, v) <=> v \in ref
    /\ last.op = "contains" => (last.found <=> last.val \in ref)

\* A value of the previous version was removed, and contains() said no.
C3_Witness ==
    /\ last.op = "contains"
    /\ ~last.found
    /\ last.val \in members(heap, prev)
    /\ ref # {}

\* C4 as stated. No-op removal: remove(t, v) with v not in t returns the
\* very same root node as t, with no newly allocated node.
C4_SameNodeReturned ==
    (last.op = "remove" /\ ~contains(heap, prev, last.val)) => root = prev

\* C4, amended. remove(t, v) with v not in t returns a tree with the same
\* values, shape and heights as t and makes no rotation; it is the very same
\* node only when t is Empty: otherwise the nodes on the search path of v,
\* the root included, are newly allocated, and nothing else is.
C4_NoOpRemoval ==
    (last.op = "remove" /\ ~contains(heap, prev, last.val)) =>
        /\ struct(heap, root) = struct(heap, prev)
        /\ last.rots = 0
        /\ Fresh = path(heap, root, last.val)
        /\ root = prev <=> prev = Empty

\* An absent value was removed from a tree of three levels.
C4_Witness ==
    /\ last.op = "remove"
    /\ ~contains(heap, prev, last.val)
    /\ height(heap, prev) >= 3
    /\ Cardinality(Fresh) >= 3

\* C5 as stated. Idempotence of insert: insert(t, v) with v in t returns a
\* tree with the membership set of t, every node of which is a node of t.
C5_NoNewNode ==
    (last.op = "insert" /\ contains(heap, prev, last.val)) =>
        /\ members(heap, root) = members(heap, prev)
        /\ reach(heap, root) \subseteq reach(heap, prev)

\* C5, amended. insert(t, v) with v in t returns a tree with the membership
\* set, shape and heights of t and makes no rotation; the node holding v and
\* everything off the search path of v are shared with t, the nodes of the
\* path above the node holding v are newly allocated, and the result is t
\* itself exactly when v is at the root of t.
C5_Idempotence ==
    (last.op = "insert" /\ contains(heap, prev, last.val)) =>
        /\ members(heap, root) = members(heap, prev)
        /\ struct(heap, root) = struct(heap, prev)
        /\ last.rots = 0
        /\ Fresh = {a \in path(heap, root, last.val) : value(heap, a) # last.val}
        /\ root = prev <=> value(heap, prev) = last.val

\* A value stored two levels below the root was inserted again.
C5_Witness ==
    /\ last.op = "insert"
    /\ contains(heap, prev, last.val)
    /\ Cardinality(Fresh) = 2
    /\ Cardinality(path(heap, root, last.val)) = 3

\* C6. Persistence: after t2 = insert(t1, v) or t2 = remove(t1, v), every
\* node of t1 has the value, children and height it had before the call,
\* and contains(t1, w) answers as before for every w.
C6_Persistence ==
    [][last'.op \in Mutating =>
          /\ struct(heap', prev') = struct(heap, root)
          /\ \A w \in Values :
                contains(heap', prev', w) <=> contains(heap, root, w)]_vars

\* A removal rotated twice and returned another tree than its argument.
C6_Witness ==
    /\ last.op = "remove"
    /\ last.rots = 2
    /\ prev # Empty
    /\ root # prev

\* C7. No fault on valid input: no call reads the value of the empty tree
\* (so every rotation finds the child it promotes) and rightmost is never
\* called on the empty tree: every call returns.
C7_NoFault == last.faults = {}

\* A removal called rightmost and rotated.
C7_Witness ==
    /\ last.op = "remove"
    /\ last.rmost > 0
    /\ last.rots > 0

\* floor(1000 * log2(m)) for m in 1..16.
Log2Milli ==
    <<0, 1000, 1584, 2000, 2321, 2584, 2807, 3000,
      3169, 3321, 3459, 3584, 3700, 3807, 3906, 4000>>

\* C8. Height bound: a tree of n distinct elements has
\* height <= 1.44 * log2(n + 1); checked as
\* 1000 * height <= 1.44 * floor(1000 * log2(n + 1)), which implies it.
C8_HeightBound ==
    100000 * height(heap, root)
        <= 144 * Log2Milli[Cardinality(members(heap, root)) + 1]

\* The smallest tree of height 3.
C8_Witness ==
    /\ height(heap, root) = 3
    /\ Cardinality(members(heap, root)) = 4

Leaf(v) == << <<>>, v, 1, <<>> >>

\* C9. Rotation scenario: inserting 1, 2, 3 into Empty makes exactly one
\* rotation (none in the first two inserts, one in the third) and returns
\* the tree with 2 at the root, the leaves 1 and 3 as its children,
\* height 2 and balance factor 0.
C9_RotationScenario ==
    /\ (last.op = "insert" /\ last.val = 1 /\ prev = Empty) =>
          /\ last.rots = 0
          /\ struct(heap, root) = Leaf(1)
    /\ (last.op = "insert" /\ last.val = 2 /\ struct(heap, prev) = Leaf(1)) =>
          /\ last.rots = 0
          /\ struct(heap, root) = << <<>>, 1, 2, Leaf(2) >>
    /\ (last.op = "insert" /\ last.val = 3
            /\ struct(heap, prev) = << <<>>, 1, 2, Leaf(2) >>) =>
          /\ last.rots = 1
          /\ struct(heap, root) = << Leaf(1), 2, 2, Leaf(3) >>
          /\ height(heap, root) = 2
          /\ bf(heap, root) = 0

\* 3 was inserted into the tree that inserting 1 and 2 into Empty gives.
C9_Witness ==
    /\ last.op = "insert"
    /\ last.val = 3
    /\ struct(heap, prev) = << <<>>, 1, 2, Leaf(2) >>

\* C10. Balance precondition: every balance(n) called by an insert or a
\* remove gets a node whose children are balanced trees and whose balance
\* factor is in -2..2, and the height of the returned tree differs from
\* the height of the argument by at most 1.
C10_BalancePrecondition ==
    /\ last.balok
    /\ last.op \in Mutating =>
          Abs(height(heap, root) - height(heap, prev)) <= 1

\* A removal rotated and returned a lower tree.
C10_Witness ==
    /\ last.op = "remove"
    /\ last.rots > 0
    /\ height(heap, root) = height(heap, prev) - 1

====
